---- MODULE Spec2Model ----
(***************************************************************************)
(* A model of kernels/rope.py: the fused rotary-position-embedding kernel  *)
(* rope_kernel_fw, its host wrapper rope, and the two frequency-table      *)
(* builders precompute_theta_pos_frequencies and precompute_freqs_cis.     *)
(*                                                                         *)
(* Memory is modelled as flat buffers (functions from element offsets to   *)
(* values); a tensor is a pair of sizes and strides over a buffer, as in   *)
(* torch.  Floating-point values are modelled by integers: activations are *)
(* integers and cos/sin are exact in fifths (the points (5,0), (3,4),      *)
(* (0,5), (-4,3) of the circle of radius 5), so every product and sum of   *)
(* the kernel is exact.                                                    *)
(***************************************************************************)
EXTENDS Integers, Sequences, FiniteSets, TLC

\* ------------------------------------------------------------------ bounds
MaxUnits == 4      \* seq_len * head_num, the number of grid units of a launch
MaxBatch == 2      \* batch_num
MaxDim == 6        \* head_dim (2 .. MaxDim, odd values included)
MaxTableDim == 7   \* dim handed to the table builders (1 .. MaxTableDim)
MaxTableSeq == 3   \* seq_len handed to the table builders (0 .. MaxTableSeq)

\* ------------------------------------------------------- values and layouts
Formats == {"sbhd", "bshd", "thd"}
\* The callers of rope: how the activation tensor is laid out, and how many
\* rows the frequency table has beyond seq_len.
Callers == {<< "contiguous", -1 >>, << "contiguous", 0 >>, << "contiguous", 1 >>,
            << "axis0_step2", 0 >>, << "axis1_step2", 0 >>, << "axis1_expand", 0 >>}
Bases == {2, 10000}
Garbage == {0, 9}            \* what a load past the end of a buffer may return
\* An element of the output buffer: as torch.empty leaves it, or holding v.
Uninit == [init |-> FALSE, v |-> 0]
Cell(v) == [init |-> TRUE, v |-> v]
\* A tensor: its sizes and strides, and the number of elements of its storage.
NoTensor == [sizes |-> <<>>, strides |-> <<>>, storage |-> 0]
NoTrig == [rows |-> 0, cols |-> 0, mem |-> << >>]
NoCtx == [cos |-> NoTrig, sin |-> NoTrig, BLOCK_SIZE |-> 0, tensor_format |-> "unset"]
NoTable == [status |-> "none", rows |-> 0, cols |-> 0, at |-> << >>]
NoOutcome == [fixed |-> FALSE, g |-> 0, hit |-> FALSE]

Min(a, b) == IF a <= b THEN a ELSE b

Numel(sizes) == sizes[1] * sizes[2] * sizes[3] * sizes[4]

ContiguousStrides(sizes) ==
    << sizes[2] * sizes[3] * sizes[4], sizes[3] * sizes[4], sizes[4], 1 >>

\* The element offset of index idx (0-based entries) under strides.
Offset(strides, idx) ==
    idx[1] * strides[1] + idx[2] * strides[2] + idx[3] * strides[3] + idx[4] * strides[4]

Indices(sizes) ==
    (0 .. sizes[1] - 1) \X (0 .. sizes[2] - 1) \X (0 .. sizes[3] - 1) \X (0 .. sizes[4] - 1)

\* Tensor.transpose(0, 1): a view, sizes and strides of axes 0 and 1 swapped.
Transpose01(T) ==
    [sizes |-> << T.sizes[2], T.sizes[1], T.sizes[3], T.sizes[4] >>,
     strides |-> << T.strides[2], T.strides[1], T.strides[3], T.strides[4] >>,
     storage |-> T.storage]

\* The tensor the caller hands to rope: sizes n, laid out as `kind` says.
\*   contiguous    a freshly allocated tensor
\*   axis0_step2   base[::2]            of a contiguous base [2*n0, n1, H, D]
\*   axis1_step2   base[:, ::2]         of a contiguous base [n0, 2*n1, H, D]
\*   axis1_expand  base.expand(-1, n1)  of a contiguous base [n0, 1, H, D]
StorageSize(kind, n) ==
    CASE kind = "contiguous" -> Numel(n)
      [] kind = "axis0_step2" -> 2 * Numel(n)
      [] kind = "axis1_step2" -> 2 * Numel(n)
      [] kind = "axis1_expand" -> n[1] * n[3] * n[4]

MakeArg(kind, n) ==
    LET hd == n[3] * n[4] IN
    [sizes |-> n,
     strides |-> CASE kind = "contiguous" -> ContiguousStrides(n)
                   [] kind = "axis0_step2" -> << 2 * n[2] * hd, hd, n[4], 1 >>
                   [] kind = "axis1_step2" -> << 2 * n[2] * hd, 2 * hd, n[4], 1 >>
                   [] kind = "axis1_expand" -> << hd, 0, n[4], 1 >>,
     storage |-> StorageSize(kind, n)]

\* ------------------------------------------------ torch layout primitives
\* Tensor.is_non_overlapping_and_dense(): the axes of size >= 2, taken by
\* ascending stride, tile the storage without gaps (axes of size 1 are free).
RECURSIVE DenseFrom(_, _, _)
DenseFrom(T, axes, require) ==
    \/ axes = {}
    \/ \E k \in axes : /\ T.strides[k] = require
                       /\ DenseFrom(T, axes \ {k}, require * T.sizes[k])

IsNonOverlappingAndDense(T) ==
    DenseFrom(T, {k \in 1 .. 4 : T.sizes[k] >= 2}, 1)

\* infer_dense_strides: the comparison of two axes, -1 / 0 / 1.
ShouldSwap(T, a, b) ==
    IF T.strides[a] = 0 \/ T.strides[b] = 0 THEN 0
    ELSE IF T.strides[a] < T.strides[b] THEN -1
    ELSE IF T.strides[a] > T.strides[b] THEN 1
    ELSE IF T.sizes[a] > T.sizes[b] THEN 1
    ELSE 0

SwapAt(perm, i, j) == [perm EXCEPT ![i] = perm[j], ![j] = perm[i]]

\* One pass of the insertion sort: the axis at position dim1 sinks towards
\* position 1 (the innermost place) while the axes before it have larger strides.
RECURSIVE Sift(_, _, _, _)
Sift(T, perm, dim0, dim1) ==
    IF dim0 < 1 THEN perm
    ELSE LET c == ShouldSwap(T, perm[dim0], perm[dim1]) IN
         IF c > 0 THEN Sift(T, SwapAt(perm, dim0, dim1), dim0 - 1, dim0)
         ELSE IF c < 0 THEN perm
         ELSE Sift(T, perm, dim0 - 1, dim1)

RECURSIVE SortFrom(_, _, _)
SortFrom(T, perm, i) ==
    IF i > 4 THEN perm ELSE SortFrom(T, Sift(T, perm, i - 1, i), i + 1)

RECURSIVE LayOut(_, _, _, _, _)
LayOut(T, perm, i, curr, out) ==
    IF i > 4 THEN out
    ELSE LayOut(T, perm, i + 1, curr * T.sizes[perm[i]], [out EXCEPT ![perm[i]] = curr])

\* The dense strides that keep the order of the axes of T.
InferDenseStrides(T) ==
    LayOut(T, SortFrom(T, << 4, 3, 2, 1 >>, 2), 1, 1, << 0, 0, 0, 0 >>)

\* torch.empty_like(t) with the default memory_format=torch.preserve_format:
\* the strides of t when t is non-overlapping and dense, else inferred dense
\* strides; the sizes of t either way.
EmptyLike(T) ==
    [sizes |-> T.sizes,
     strides |-> IF IsNonOverlappingAndDense(T) THEN T.strides ELSE InferDenseStrides(T),
     storage |-> Numel(T.sizes)]

\* triton.next_power_of_2(n), for n >= 1.
RECURSIVE PowerOf2From(_, _)
PowerOf2From(p, n) == IF p >= n THEN p ELSE PowerOf2From(2 * p, n)

next_power_of_2(n) == PowerOf2From(1, n)

\* torch.cos / torch.sin of an angle of the table, in fifths.  Angles are the
\* four table values 0 .. 3: 0, atan(4/3), pi/2, pi - atan(3/4).
Cos5(a) == CASE a = 0 -> 5 [] a = 1 -> 3 [] a = 2 -> 0 [] a = 3 -> -4

Sin5(a) == CASE a = 0 -> 0 [] a = 1 -> 4 [] a = 2 -> 5 [] a = 3 -> 3

\* -------------------------------------------------------------------- state
VARIABLES
    pc,             \* where the call of rope is: "entry", "kernel", "returned", "raised"
    call,           \* 1 for the caller's first call of rope, 2 for its second
    err,            \* the exception rope raised, or "none"
    tensor_format,  \* the tensor_format argument
    arg,            \* the tensor argument t as the caller passes it (sizes, strides)
    in_mem,         \* the storage behind arg
    freqs,          \* the freqs argument: rows, cols and the angles, row-major
    t,              \* rope's local t, after the layout adaptation
    output,         \* rope's local output (sizes, strides), NoTensor before allocation
    out_mem,        \* the storage behind output
    cos,            \* rope's local cos table: rows, cols, mem
    sin,            \* rope's local sin table
    launch,         \* the arguments of the kernel launch
    unit,           \* per grid unit (pid_seq, pid_head): position, batch_idx, cos and sin registers
    ctx,            \* the ctx object of the caller
    ret,            \* the tensor rope returned (sizes, strides over out_mem)
    prev,           \* the caller's copy of the result of its first call
    stores,         \* per output element, how many stores of the launch hit it
    oob,            \* the kinds of out-of-bounds accesses the launch performed
    lanes_used,     \* the lanes of the block that accessed memory during the launch
    ub,             \* the outcome of out-of-bounds accesses, fixed at the first one
    tdim,           \* table builders: the dim argument
    tseq,           \* table builders: the seq_len argument
    tbase,          \* table builders: the theta / base argument
    freqs_complex,  \* the outcome of precompute_theta_pos_frequencies
    freqs_cis,      \* the outcome of precompute_freqs_cis
    printed         \* the messages written to standard output

ropeVars == << pc, call, err, tensor_format, arg, in_mem, freqs, t, output, out_mem,
               cos, sin, launch, unit, ctx, ret, prev, stores, oob, lanes_used, ub >>
tableVars == << tdim, tseq, tbase, freqs_complex, freqs_cis, printed >>
vars == << ropeVars, tableVars >>

NoLaunch == [seq_len |-> 0, head_num |-> 0]
\* The angles of a table of `rows` rows for head_dim D: entry (r, k) is
\* the angle (r * cols + k + r) % 4, stored row-major.
MakeFreqs(rows, D) ==
    LET cols == D \div 2 IN
    [rows |-> rows, cols |-> cols,
     ang |-> [o \in 0 .. rows * cols - 1 |-> (o + (o \div cols)) % 4]]

TablesIdle ==
    /\ tdim = 0 /\ tseq = 0 /\ tbase = 0
    /\ freqs_complex = NoTable /\ freqs_cis = NoTable /\ printed = << >>

\* A caller about to call rope(ctx, t, freqs, tensor_format).
InitRope ==
    \E S \in 1 .. MaxUnits, H \in 1 .. MaxUnits, B \in 1 .. MaxBatch, D \in 2 .. MaxDim,
       fmt \in Formats, caller \in Callers :
        /\ S * H <= MaxUnits
        /\ S + caller[2] >= 1
        /\ LET n == IF fmt = "bshd" THEN << B, S, H, D >> ELSE << S, B, H, D >> IN
           /\ arg = MakeArg(caller[1], n)
           /\ in_mem = [o \in 0 .. MakeArg(caller[1], n).storage - 1 |-> o + 1]
        /\ freqs = MakeFreqs(S + caller[2], D)
        /\ tensor_format = fmt
        /\ pc = "entry" /\ call = 1 /\ err = "none"
        /\ t = NoTensor /\ output = NoTensor /\ out_mem = << >>
        /\ cos = NoTrig /\ sin = NoTrig /\ launch = NoLaunch
        /\ unit = << >> /\ ctx = NoCtx /\ ret = NoTensor /\ prev = << >>
        /\ stores = << >> /\ oob = {} /\ lanes_used = {} /\ ub = NoOutcome

Init == InitRope /\ TablesIdle

\* ------------------------------------------------------------ rope, host side
\* Lines 53-56 without the elif: no tag is refused.
UnsupportedFormat_never(fmt) == FALSE

\* Lines 53-56: the tags rope raises ValueError for.
UnsupportedFormat(fmt) == fmt # "bshd" /\ fmt # "sbhd"

\* Lines 53-54: the kernel's view of the argument.
Adapt(fmt, a) == IF fmt = "bshd" THEN Transpose01(a) ELSE a

\* Lines 65-67: freqs[:seq_len], then torch.cos / torch.sin into a new table.
SliceRows(f, seq_len) == Min(f.rows, seq_len)

CosTable(f, seq_len) ==
    [rows |-> SliceRows(f, seq_len), cols |-> f.cols,
     mem |-> [o \in 0 .. SliceRows(f, seq_len) * f.cols - 1 |-> Cos5(f.ang[o])]]

SinTable(f, seq_len) ==
    [rows |-> SliceRows(f, seq_len), cols |-> f.cols,
     mem |-> [o \in 0 .. SliceRows(f, seq_len) * f.cols - 1 |-> Sin5(f.ang[o])]]

\* Lines 58-80: the arguments rope launches the kernel with.
LaunchArgs(tt, c, s) ==
    [in_seq_len_stride |-> tt.strides[1],
     in_batch_stride |-> tt.strides[2],
     cos_stride |-> c.cols,
     sin_stride |-> s.cols,
     seq_len |-> tt.sizes[1],
     head_num |-> tt.sizes[3],
     head_dim |-> tt.sizes[4],
     BLOCK_SIZE |-> next_power_of_2(tt.sizes[4] \div 2),
     BATCH_NUM |-> tt.sizes[2]]

Grid(K) == (0 .. K.seq_len - 1) \X (0 .. K.head_num - 1)

\* rope up to and including the launch (lines 53-80), or its raise (line 56).
RopeLaunch ==
    /\ pc = "entry"
    /\ IF UnsupportedFormat(tensor_format)
       THEN /\ pc' = "raised"
            /\ err' = "ValueError"
            /\ UNCHANGED << t, output, out_mem, cos, sin, launch, unit, stores >>
       ELSE LET tt == Adapt(tensor_format, arg)
                c == CosTable(freqs, tt.sizes[1])
                s == SinTable(freqs, tt.sizes[1])
                K == LaunchArgs(tt, c, s)
            IN  /\ t' = tt
                /\ output' = EmptyLike(tt)
                /\ out_mem' = [o \in 0 .. Numel(tt.sizes) - 1 |-> Uninit]
                /\ stores' = [o \in 0 .. Numel(tt.sizes) - 1 |-> 0]
                /\ cos' = c
                /\ sin' = s
                /\ launch' = K
                /\ unit' = [u \in Grid(K) |->
                              [pos |-> "load", batch_idx |-> 0, cos |-> << >>, sin |-> << >>]]
                /\ pc' = "kernel"
                /\ err' = "none"
    /\ UNCHANGED << call, tensor_format, arg, in_mem, freqs, ctx, ret, prev, oob, lanes_used, ub >>
    /\ UNCHANGED tableVars

\* ------------------------------------------------------------ rope_kernel_fw
\* Line 17: tl.arange(0, BLOCK_SIZE).
head_dim_offset(K) == 0 .. K.BLOCK_SIZE - 1

\* Line 18.
head_dim_mid(K) == K.head_dim \div 2

\* Line 20 without the mask: every lane of the block is active.
mask_all(K, lane) == TRUE

\* Line 20.
mask(K, lane) == lane < head_dim_mid(K)

\* Lines 22-23.
cos_offset(K, pid_seq, lane) == (pid_seq % K.seq_len) * K.cos_stride + lane

sin_offset(K, pid_seq, lane) == (pid_seq % K.seq_len) * K.sin_stride + lane

\* Lines 29-32.
x1_offset(K, pid_seq, pid_head, batch_idx, lane) ==
    pid_seq * K.in_seq_len_stride + batch_idx * K.in_batch_stride
        + pid_head * K.head_dim + lane

\* Lines 31-32 without head_dim_mid: the second half addressed as the first.
x2_offset_nomid(K, pid_seq, pid_head, batch_idx, lane) ==
    pid_seq * K.in_seq_len_stride + batch_idx * K.in_batch_stride
        + pid_head * K.head_dim + lane

x2_offset(K, pid_seq, pid_head, batch_idx, lane) ==
    pid_seq * K.in_seq_len_stride + batch_idx * K.in_batch_stride
        + pid_head * K.head_dim + head_dim_mid(K) + lane

\* Line 37 with the sign of the second product flipped.
y1_plus(x1, x2, c, s) == x1 * c + x2 * s

\* Lines 37-38.
y1(x1, x2, c, s) == x1 * c - x2 * s

y2(x1, x2, c, s) == x1 * s + x2 * c

\* Whether offset off addresses an element of a buffer of n elements.
InBuffer(off, n) == 0 <= off /\ off < n

\* tl.load(ptr + off, mask=m, other=0.0) of one lane, from a buffer of n elements: a masked-out lane yields
\* `other` without an access; an access past the buffer yields some value g.
tl_load(mem, n, off, m, g) ==
    IF ~m THEN 0 ELSE IF InBuffer(off, n) THEN mem[off] ELSE g

\* The lanes of the block that access memory.
ActiveLanes(K) == {lane \in head_dim_offset(K) : mask(K, lane)}

\* tl.store(ptr + off, val, mask=m) of a block into mem, a buffer of n
\* elements: offs and vals are per lane, lanes the unmasked lanes; a lane
\* whose offset is outside mem leaves mem alone.  The lanes of one store have
\* distinct offsets.
RECURSIVE tl_store(_, _, _, _, _)
tl_store(mem, n, lanes, offs, vals) ==
    IF lanes = {} THEN mem
    ELSE LET lane == CHOOSE l \in lanes : TRUE
             off == offs[lane]
         IN  tl_store(IF InBuffer(off, n) THEN [mem EXCEPT ![off] = vals[lane]] ELSE mem,
                      n, lanes \ {lane}, offs, vals)

\* The number of stores per element of the output, after one more tl.store.
RECURSIVE CountStores(_, _, _, _)
CountStores(cnt, n, lanes, offs) ==
    IF lanes = {} THEN cnt
    ELSE LET lane == CHOOSE l \in lanes : TRUE
             off == offs[lane]
         IN  CountStores(IF InBuffer(off, n) THEN [cnt EXCEPT ![off] = @ + 1] ELSE cnt,
                         n, lanes \ {lane}, offs)

\* Where the stores past the output buffer land when they land in the
\* caller's activation storage of n elements (one of the outcomes of such a
\* store).
RECURSIVE Clobber(_, _, _, _, _)
Clobber(mem, n, lanes, offs, vals) ==
    IF lanes = {} THEN mem
    ELSE LET lane == CHOOSE l \in lanes : TRUE IN
         Clobber([mem EXCEPT ![offs[lane] % n] = vals[lane]],
                 n, lanes \ {lane}, offs, vals)

\* The outcome of the launch's out-of-bounds accesses, fixed at the first one:
\* the value g such a load returns, and whether such a store lands in the
\* activation storage (hit) or outside every tensor.
Outcomes(u, bad) ==
    IF u.fixed \/ ~bad THEN {u} ELSE [fixed : {TRUE}, g : Garbage, hit : BOOLEAN]

\* Lines 14-26: the cos and sin registers of unit pid_seq, one value per lane.
LoadCos(K, pid_seq, g) ==
    [lane \in head_dim_offset(K) |->
        tl_load(cos.mem, cos.rows * cos.cols, cos_offset(K, pid_seq, lane), mask(K, lane), g)]

LoadSin(K, pid_seq, g) ==
    [lane \in head_dim_offset(K) |->
        tl_load(sin.mem, sin.rows * sin.cols, sin_offset(K, pid_seq, lane), mask(K, lane), g)]

\* One scheduling step of grid unit (pid_seq, pid_head): iteration batch_idx
\* of its unrolled batch loop (lines 28-41), preceded in its first step by
\* the loads of its cos and sin rows into registers (lines 14-26).
rope_kernel_fw(pid_seq, pid_head) ==
    LET K == launch
        u == << pid_seq, pid_head >>
        b == unit[u].batch_idx
        first == unit[u].pos = "load"
        act == ActiveLanes(K)
        badc == {lane \in act :
                    first /\ ~ InBuffer(cos_offset(K, pid_seq, lane), cos.rows * cos.cols)}
        bads == {lane \in act :
                    first /\ ~ InBuffer(sin_offset(K, pid_seq, lane), sin.rows * sin.cols)}
        off1 == [lane \in head_dim_offset(K) |-> x1_offset(K, pid_seq, pid_head, b, lane)]
        off2 == [lane \in head_dim_offset(K) |-> x2_offset(K, pid_seq, pid_head, b, lane)]
        badx == {lane \in act :
                    ~ InBuffer(off1[lane], t.storage) \/ ~ InBuffer(off2[lane], t.storage)}
        bad1 == {lane \in act : ~ InBuffer(off1[lane], output.storage)}
        bad2 == {lane \in act : ~ InBuffer(off2[lane], output.storage)}
        bad == badc \cup bads \cup badx \cup bad1 \cup bad2 # {}
    IN  /\ pc = "kernel"
        /\ unit[u].pos \in {"load", "batch"}
        /\ \E o \in Outcomes(ub, bad) :
              LET c == IF first THEN LoadCos(K, pid_seq, o.g) ELSE unit[u].cos
                  s == IF first THEN LoadSin(K, pid_seq, o.g) ELSE unit[u].sin
                  x1 == [lane \in head_dim_offset(K) |->
                           tl_load(in_mem, t.storage, off1[lane], mask(K, lane), o.g)]
                  x2 == [lane \in head_dim_offset(K) |->
                           tl_load(in_mem, t.storage, off2[lane], mask(K, lane), o.g)]
                  v1 == [lane \in head_dim_offset(K) |-> y1(x1[lane], x2[lane], c[lane], s[lane])]
                  v2 == [lane \in head_dim_offset(K) |-> y2(x1[lane], x2[lane], c[lane], s[lane])]
                  w1 == [lane \in head_dim_offset(K) |-> Cell(v1[lane])]
                  w2 == [lane \in head_dim_offset(K) |-> Cell(v2[lane])]
              IN  /\ out_mem' = tl_store(tl_store(out_mem, output.storage, act, off1, w1),
                                          output.storage, act, off2, w2)
                  /\ in_mem' = IF o.hit
                               THEN Clobber(Clobber(in_mem, t.storage, bad1, off1, v1),
                                            t.storage, bad2, off2, v2)
                               ELSE in_mem
                  /\ unit' = [unit EXCEPT ![u] =
                        [pos |-> IF b + 1 = K.BATCH_NUM THEN "done" ELSE "batch",
                         batch_idx |-> b + 1, cos |-> c, sin |-> s]]
                  /\ ub' = o
        /\ stores' = CountStores(CountStores(stores, output.storage, act, off1),
                                  output.storage, act, off2)
        /\ oob' = oob \cup (IF badc = {} THEN {} ELSE {"cos_load"})
                      \cup (IF bads = {} THEN {} ELSE {"sin_load"})
                      \cup (IF badx = {} THEN {} ELSE {"x_load"})
                      \cup (IF bad1 \cup bad2 = {} THEN {} ELSE {"store"})
        /\ lanes_used' = lanes_used \cup act
        /\ UNCHANGED << pc, call, err, tensor_format, arg, freqs, t, output,
                        cos, sin, launch, ctx, ret, prev >>
        /\ UNCHANGED tableVars

\* ------------------------------------------------- rope, after the launch
\* Lines 82-85 with head_dim // 2 kept in place of BLOCK_SIZE.
CtxAfter_mid(c, s, K, fmt) ==
    [cos |-> c, sin |-> s, BLOCK_SIZE |-> K.head_dim \div 2, tensor_format |-> fmt]

\* Lines 82-85.
CtxAfter(c, s, K, fmt) ==
    [cos |-> c, sin |-> s, BLOCK_SIZE |-> K.BLOCK_SIZE, tensor_format |-> fmt]

\* Lines 87-89 without the transposition back.
Returned_asis(fmt, out) == out

\* Lines 87-89.
Returned(fmt, out) == IF fmt = "bshd" THEN Transpose01(out) ELSE out

\* rope from line 82 on; the launch is complete when every unit has finished.
RopeReturn ==
    /\ pc = "kernel"
    /\ \A u \in DOMAIN unit : unit[u].pos = "done"
    /\ ctx' = CtxAfter(cos, sin, launch, tensor_format)
    /\ ret' = Returned(tensor_format, output)
    /\ pc' = "returned"
    /\ UNCHANGED << call, err, tensor_format, arg, in_mem, freqs, t, output, out_mem,
                    cos, sin, launch, unit, prev, stores, oob, lanes_used, ub >>
    /\ UNCHANGED tableVars

\* The elements of tensor T over storage mem, by index.
Values(T, mem) == [idx \in Indices(T.sizes) |-> mem[Offset(T.strides, idx)]]

OtherFormat(fmt) == IF fmt = "sbhd" THEN "bshd" ELSE "sbhd"

\* The caller keeps the first result and calls rope again with the same
\* activations in the other layout: rope(ctx, t.transpose(0, 1), freqs, other tag).
CallTransposed ==
    /\ pc = "returned"
    /\ call = 1
    /\ prev' = Values(ret, out_mem)
    /\ arg' = Transpose01(arg)
    /\ tensor_format' = OtherFormat(tensor_format)
    /\ call' = 2
    /\ pc' = "entry"
    /\ t' = NoTensor /\ output' = NoTensor /\ out_mem' = << >>
    /\ cos' = NoTrig /\ sin' = NoTrig /\ launch' = NoLaunch
    /\ unit' = << >> /\ ret' = NoTensor
    /\ stores' = << >> /\ oob' = {} /\ lanes_used' = {}
    /\ UNCHANGED << err, in_mem, freqs, ctx, ub >>
    /\ UNCHANGED tableVars

NextRope ==
    \/ RopeLaunch
    \/ \E u \in DOMAIN unit : rope_kernel_fw(u[1], u[2])
    \/ RopeReturn
    \/ CallTransposed

\* ----------------------------------------------------- the table builders
\* A power base^(num/den) is kept as its base and the two parts of its
\* exponent, so that two schedules are equal exactly when they raise the same
\* base to exponents with the same numerator and denominator.
Power(base, num, den) == [base |-> base, num |-> num, den |-> den]

\* 1.0 / p.
Reciprocal(p) == [p EXCEPT !.num = - p.num]

\* torch.outer(m, theta) followed by torch.polar(ones, .): entry (position, k)
\* is the unit complex number of angle position * theta[k].
Polar(seq_len, theta) ==
    [status |-> "ok", rows |-> seq_len, cols |-> Len(theta),
     at |-> [e \in (0 .. seq_len - 1) \X (0 .. Len(theta) - 1) |->
               [abs |-> 1, m |-> e[1], theta |-> theta[e[2] + 1]]]]

\* Line 98: torch.arange(0, head_dim, 2).
theta_numerator(head_dim) == [k \in 1 .. (head_dim + 1) \div 2 |-> 2 * (k - 1)]

\* Line 100: 1.0 / (theta ** (theta_numerator / head_dim)).
ThetaPos(head_dim, theta) ==
    [k \in 1 .. Len(theta_numerator(head_dim)) |->
        Reciprocal(Power(theta, theta_numerator(head_dim)[k], head_dim))]

\* Lines 91-110; line 94 raises AssertionError for an odd head_dim.
precompute_theta_pos_frequencies(head_dim, seq_len, theta) ==
    IF head_dim % 2 # 0
    THEN [NoTable EXCEPT !.status = "AssertionError"]
    ELSE Polar(seq_len, ThetaPos(head_dim, theta))

\* Lines 126-127 with the exponent taken from i, not i - 1.
compute_theta_onebased(dim, base) ==
    [i \in 1 .. dim \div 2 |-> Power(base, -2 * i, dim)]

\* Lines 126-129: i = 1 .. dim // 2, theta_i = base ** (-2 * (i - 1) / dim).
compute_theta(dim, base) ==
    [i \in 1 .. dim \div 2 |-> Power(base, -2 * (i - 1), dim)]

\* Lines 124-125: what compute_theta prints.
compute_theta_prints(dim) == IF dim % 2 # 0 THEN << "dim must be even" >> ELSE << >>

\* Lines 131-137.
precompute_freqs_cis(dim, seq_len, base) == Polar(seq_len, compute_theta(dim, base))

RopeIdle ==
    /\ pc = "idle" /\ call = 0 /\ err = "none" /\ tensor_format = "sbhd"
    /\ arg = NoTensor /\ in_mem = << >> /\ freqs = MakeFreqs(0, 0)
    /\ t = NoTensor /\ output = NoTensor /\ out_mem = << >>
    /\ cos = NoTrig /\ sin = NoTrig /\ launch = NoLaunch
    /\ unit = << >> /\ ctx = NoCtx /\ ret = NoTensor /\ prev = << >>
    /\ stores = << >> /\ oob = {} /\ lanes_used = {} /\ ub = NoOutcome

\* A caller about to build the table for (dim, seq_len, base) with each builder.
InitTables ==
    /\ tdim \in 1 .. MaxTableDim
    /\ tseq \in 0 .. MaxTableSeq
    /\ tbase \in Bases
    /\ freqs_complex = NoTable /\ freqs_cis = NoTable /\ printed = << >>
    /\ RopeIdle

CallThetaPos ==
    /\ freqs_complex.status = "none"
    /\ tdim > 0
    /\ freqs_complex' = precompute_theta_pos_frequencies(tdim, tseq, tbase)
    /\ UNCHANGED << tdim, tseq, tbase, freqs_cis, printed >>
    /\ UNCHANGED ropeVars

CallFreqsCis ==
    /\ freqs_cis.status = "none"
    /\ tdim > 0
    /\ freqs_cis' = precompute_freqs_cis(tdim, tseq, tbase)
    /\ printed' = printed \o compute_theta_prints(tdim)
    /\ UNCHANGED << tdim, tseq, tbase, freqs_complex >>
    /\ UNCHANGED ropeVars

NextTables == CallThetaPos \/ CallFreqsCis

\* ------------------------------------------------------------ specifications
\* The calls of rope that meet the kernel's contract: the activation tensor is
\* non-overlapping and dense, the table has a row for every position.
MeetsContract ==
    /\ IsNonOverlappingAndDense(arg)
    /\ freqs.rows >= Adapt(tensor_format, arg).sizes[1]

InitContract == InitRope /\ TablesIdle /\ MeetsContract

Next == NextRope

\* Every call of rope.
Spec == Init /\ [][Next]_vars

\* The calls of rope that meet the kernel's contract.
SpecContract == InitContract /\ [][Next]_vars

\* The table builders.
SpecTables == InitTables /\ [][NextTables]_vars

\* ------------------------------------------------------------------- claims
\* Logical elements: Activation[idx] as the caller filled it (element o of
\* the storage holds o + 1), Output[idx], and the table entries of row r.
Activation(idx) == Offset(t.strides, idx) + 1

Output(idx) == out_mem[Offset(output.strides, idx)]

CosRow(r, i) == Cos5(freqs.ang[r * freqs.cols + i])

SinRow(r, i) == Sin5(freqs.ang[r * freqs.cols + i])

Half == t.sizes[4] \div 2

Pairs == (0 .. t.sizes[1] - 1) \X (0 .. t.sizes[2] - 1) \X (0 .. t.sizes[3] - 1) \X (0 .. Half - 1)

Launched == pc \in {"kernel", "returned"}

AllDone == Launched /\ \A u \in DOMAIN unit : unit[u].pos = "done"

\* Output at pair e holds the rotation of the activation pair by row e[1].
Rotated(e) ==
    LET hi == << e[1], e[2], e[3], e[4] + Half >>
        x1 == Activation(e)
        x2 == Activation(hi)
    IN  /\ Output(e) = Cell(x1 * CosRow(e[1], e[4]) - x2 * SinRow(e[1], e[4]))
        /\ Output(hi) = Cell(x1 * SinRow(e[1], e[4]) + x2 * CosRow(e[1], e[4]))

C5_UnsupportedFormatRaises ==
    /\ tensor_format \notin {"sbhd", "bshd"} =>
          /\ pc \in {"entry", "raised"}
          /\ pc = "raised" => err = "ValueError"
          /\ output = NoTensor /\ out_mem = << >>
          /\ unit = << >> /\ stores = << >>
          /\ ctx = NoCtx
    /\ tensor_format \in {"sbhd", "bshd"} => (pc # "raised" /\ err = "none")

C5_Witness == pc = "raised" /\ tensor_format = "thd" /\ err = "ValueError"

Swap01(idx) == << idx[2], idx[1], idx[3], idx[4] >>

C7_ViewStoredAtLogicalElements ==
    (AllDone /\ t.sizes[4] % 2 = 0 /\ freqs.rows >= t.sizes[1]
       /\ ~ IsNonOverlappingAndDense(t))
        => \A e \in Pairs : Rotated(e)

\* C8: when seq_len exceeds the number R of rows of the frequency table, the
\* cos and sin loads of position s read row s mod R, never past the last row.
C8_TableRowsWrap ==
    (Launched /\ freqs.rows < t.sizes[1]) =>
        /\ "cos_load" \notin oob /\ "sin_load" \notin oob
        /\ \A u \in DOMAIN unit : unit[u].pos # "load" =>
              \A i \in 0 .. Half - 1 :
                  /\ unit[u].cos[i] = CosRow(u[1] % freqs.rows, i)
                  /\ unit[u].sin[i] = SinRow(u[1] % freqs.rows, i)

C4_OddDimRejected ==
    /\ tdim % 2 = 1 => (freqs_complex.status # "ok" /\ freqs_cis.status # "ok")
    /\ (Launched /\ t.sizes[4] % 2 = 1) => pc = "raised"

\* C10: for an even dim the two builders produce the same table, of shape
\* [seq_len, dim/2], whose entry (position, k) is the unit complex number of
\* angle position * base^(-2k/dim).
C10_SameSchedule ==
    (tdim % 2 = 0 /\ freqs_complex.status = "ok" /\ freqs_cis.status = "ok") =>
        /\ freqs_complex = freqs_cis
        /\ freqs_cis.rows = tseq /\ freqs_cis.cols = tdim \div 2
        /\ DOMAIN freqs_cis.at = (0 .. tseq - 1) \X (0 .. tdim \div 2 - 1)
        /\ \A e \in DOMAIN freqs_cis.at :
              freqs_cis.at[e] =
                  [abs |-> 1, m |-> e[1],
                   theta |-> [base |-> tbase, num |-> - 2 * e[2], den |-> tdim]]

C10_Witness ==
    /\ tdim = 6 /\ tseq = 3
    /\ freqs_complex.status = "ok" /\ freqs_cis.status = "ok"
    /\ freqs_complex.at[<< 2, 2 >>] = freqs_cis.at[<< 2, 2 >>]

====
